---- MODULE Spec2Model ----
(***************************************************************************)
(* A model of two parts of the objc2 repository:                           *)
(*                                                                         *)
(*   - objc2_encode/src/parse.rs: the matcher eq_enc, which decides        *)
(*     whether an encoding string denotes a structured Encoding;           *)
(*   - crates/block2/src/concrete_block.rs: ConcreteBlock, its header,     *)
(*     its heap promotion and the copy/dispose helpers the Objective-C     *)
(*     runtime calls.                                                      *)
(*                                                                         *)
(* A string (&str) is a sequence of one-character strings.  Option<T> is   *)
(* a record [ok, ...]: ok = FALSE is None.                                 *)
(***************************************************************************)
EXTENDS Integers, Sequences, FiniteSets, TLC

VARIABLES
    s,          \* matcher: the encoding string handed to eq_enc
    enc,        \* matcher: the structured Encoding handed to eq_enc
    result,     \* matcher: what eq_enc returned
    pc,         \* matcher: "call" before eq_enc runs, "done" after ("idle": no call)
    matched,    \* matcher: the encodings eq_enc has matched the string s with
    stack,      \* blocks: the ConcreteBlock values, by block id
    heap,       \* blocks: the runtime's heap blocks, by heap id
    stackDrops, \* blocks: per closure value, destructor runs by the stack value's drop
    disposeDrops \* blocks: per closure value, destructor runs by block_context_dispose

vars == <<s, enc, result, pc, matched, stack, heap, stackDrops, disposeDrops>>
encVars == <<s, enc, result, pc, matched>>
blockVars == <<stack, heap, stackDrops, disposeDrops>>

(***************************************************************************)
(* Bounds of the model.                                                    *)
(***************************************************************************)
\* usize is modelled UsizeBits wide, so that short digit runs overflow it
UsizeBits == 8
\* the longest qualifier prefix put in front of an encoding string
MaxQual == 2
\* the longest digit string tried in the place of a length or width
MaxDigits == 3
\* the most leading zeros added to a length or width
MaxZeros == 2
\* the longest field list generated for a struct or union
MaxFields == 2
\* the longest suffix appended to an encoding string
MaxSuffix == 1

USIZE_MAX == 2^UsizeBits - 1

(***************************************************************************)
(* Encoding: the variants of the enum, as records tagged by k.             *)
(***************************************************************************)
Leaf(kind) == [k |-> kind]
BitField(b) == [k |-> "BitField", b |-> b]
Pointer(t) == [k |-> "Pointer", t |-> t]
Array(len, item) == [k |-> "Array", len |-> len, item |-> item]
Struct(name, fields) == [k |-> "Struct", name |-> name, fields |-> fields]
Union(name, members) == [k |-> "Union", name |-> name, fields |-> members]

(***************************************************************************)
(* parse.rs                                                                *)
(***************************************************************************)
QUALIFIERS == {"r", "n", "N", "o", "O", "R", "V"}

None == [ok |-> FALSE, rest |-> <<>>]
Some(t) == [ok |-> TRUE, rest |-> t]

\* str::strip_prefix: the rest of str after the prefix p, None when p is no prefix
strip_prefix(str, p) ==
    IF Len(str) >= Len(p) /\ SubSeq(str, 1, Len(p)) = p
    THEN Some(SubSeq(str, Len(p) + 1, Len(str)))
    ELSE None

\* str::trim_start_matches(QUALIFIERS): drop the leading run of matching characters
RECURSIVE trim_start_matches(_, _)
trim_start_matches(str, chars) ==
    IF str # <<>> /\ Head(str) \in chars
    THEN trim_start_matches(Tail(str), chars)
    ELSE str

DigitChars == <<"0", "1", "2", "3", "4", "5", "6", "7", "8", "9">>

\* char::is_digit(10)
is_digit(c) == \E i \in 1..10 : DigitChars[i] = c

to_digit(c) == (CHOOSE i \in 1..10 : DigitChars[i] = c) - 1

\* str::find(|c| !c.is_digit(10)): the index of the first non-digit, 0 when none
find_non_digit(str) ==
    IF \E i \in 1..Len(str) : ~is_digit(str[i])
    THEN CHOOSE i \in 1..Len(str) :
             /\ ~is_digit(str[i])
             /\ \A j \in 1..(i - 1) : is_digit(str[j])
    ELSE 0

\* str::parse::<usize>() of a run of digits: fails on the empty string and on
\* a value that does not fit usize (checked multiplication and addition)
RECURSIVE parse_digits(_, _)
parse_digits(num, acc) ==
    IF num = <<>> THEN [ok |-> TRUE, n |-> acc]
    ELSE LET v == acc * 10 + to_digit(Head(num))
         IN IF v > USIZE_MAX THEN [ok |-> FALSE, n |-> 0]
            ELSE parse_digits(Tail(num), v)

parse_usize(num) ==
    IF num = <<>> THEN [ok |-> FALSE, n |-> 0] ELSE parse_digits(num, 0)

\* a plausible slip: the digits are accumulated with wrapping arithmetic
RECURSIVE wrapping_digits(_, _)
wrapping_digits(num, acc) ==
    IF num = <<>> THEN acc
    ELSE wrapping_digits(Tail(num), (acc * 10 + to_digit(Head(num))) % (USIZE_MAX + 1))

chomp_int_wrapping(str) ==
    LET i == find_non_digit(str)
        num == IF i = 0 THEN str ELSE SubSeq(str, 1, i - 1)
        t == IF i = 0 THEN <<>> ELSE SubSeq(str, i, Len(str))
    IN IF num # <<>> THEN [ok |-> TRUE, n |-> wrapping_digits(num, 0), rest |-> t]
       ELSE [ok |-> FALSE, n |-> 0, rest |-> <<>>]

\* chomp_int: Option<(usize, &str)>
chomp_int(str) ==
    LET i == find_non_digit(str)
        num == IF i = 0 THEN str ELSE SubSeq(str, 1, i - 1)
        t == IF i = 0 THEN <<>> ELSE SubSeq(str, i, Len(str))
        p == parse_usize(num)
    IN IF p.ok THEN [ok |-> TRUE, n |-> p.n, rest |-> t]
       ELSE [ok |-> FALSE, n |-> 0, rest |-> <<>>]

rm_int_prefix(str, other) ==
    LET c == chomp_int(str)
    IN IF c.ok /\ other = c.n THEN Some(c.rest) ELSE None

\* the one- or two-character code of a variant without payload
code(kind) ==
    CASE kind = "Char" -> <<"c">>
      [] kind = "Short" -> <<"s">>
      [] kind = "Int" -> <<"i">>
      [] kind = "Long" -> <<"l">>
      [] kind = "LongLong" -> <<"q">>
      [] kind = "UChar" -> <<"C">>
      [] kind = "UShort" -> <<"S">>
      [] kind = "UInt" -> <<"I">>
      [] kind = "ULong" -> <<"L">>
      [] kind = "ULongLong" -> <<"Q">>
      [] kind = "Float" -> <<"f">>
      [] kind = "Double" -> <<"d">>
      [] kind = "Bool" -> <<"B">>
      [] kind = "Void" -> <<"v">>
      [] kind = "String" -> <<"*">>
      [] kind = "Object" -> <<"@">>
      [] kind = "Block" -> <<"@", "?">>
      [] kind = "Class" -> <<"#">>
      [] kind = "Sel" -> <<":">>
      [] kind = "Unknown" -> <<"?">>

RECURSIVE rm_enc_prefix(_, _)
RECURSIVE rm_fields(_, _)

\* a plausible slip: qualifiers are also skipped in front of a pointer's target
rm_enc_prefix_quals(str, e) ==
    IF e.k = "Pointer"
    THEN LET a == strip_prefix(str, <<"^">>)
         IN IF ~a.ok THEN None
            ELSE rm_enc_prefix(trim_start_matches(a.rest, QUALIFIERS), e.t)
    ELSE IF e.k = "Struct"
    THEN LET a == strip_prefix(str, <<"{">>)
             b == IF a.ok THEN strip_prefix(a.rest, e.name) ELSE None
             c == IF b.ok THEN strip_prefix(b.rest, <<"=">>) ELSE None
             d == IF c.ok THEN rm_fields(trim_start_matches(c.rest, QUALIFIERS), e.fields)
                  ELSE None
         IN IF d.ok THEN strip_prefix(d.rest, <<"}">>) ELSE None
    ELSE IF e.k = "BitField"
    THEN LET a == strip_prefix(str, <<"b">>)
         IN IF a.ok THEN rm_int_prefix(a.rest, e.b) ELSE None
    ELSE IF e.k = "Array"
    THEN LET a == strip_prefix(str, <<"[">>)
             b == IF a.ok THEN rm_int_prefix(a.rest, e.len) ELSE None
             c == IF b.ok THEN rm_enc_prefix(b.rest, e.item) ELSE None
         IN IF c.ok THEN strip_prefix(c.rest, <<"]">>) ELSE None
    ELSE IF e.k = "Union"
    THEN LET a == strip_prefix(str, <<"(">>)
             b == IF a.ok THEN strip_prefix(a.rest, e.name) ELSE None
             c == IF b.ok THEN strip_prefix(b.rest, <<"=">>) ELSE None
             d == IF c.ok THEN rm_fields(c.rest, e.fields) ELSE None
         IN IF d.ok THEN strip_prefix(d.rest, <<")">>) ELSE None
    ELSE strip_prefix(str, code(e.k))

\* a plausible slip: a struct or union whose closing delimiter is optional
rm_enc_prefix_open(str, e) ==
    IF e.k = "Pointer"
    THEN LET a == strip_prefix(str, <<"^">>)
         IN IF a.ok THEN rm_enc_prefix(a.rest, e.t) ELSE None
    ELSE IF e.k = "Struct"
    THEN LET a == strip_prefix(str, <<"{">>)
             b == IF a.ok THEN strip_prefix(a.rest, e.name) ELSE None
             c == IF b.ok THEN strip_prefix(b.rest, <<"=">>) ELSE None
             d == IF c.ok THEN rm_fields(c.rest, e.fields) ELSE None
             z == IF d.ok THEN strip_prefix(d.rest, <<"}">>) ELSE None
         IN IF d.ok /\ ~z.ok THEN d ELSE z
    ELSE IF e.k = "BitField"
    THEN LET a == strip_prefix(str, <<"b">>)
         IN IF a.ok THEN rm_int_prefix(a.rest, e.b) ELSE None
    ELSE IF e.k = "Array"
    THEN LET a == strip_prefix(str, <<"[">>)
             b == IF a.ok THEN rm_int_prefix(a.rest, e.len) ELSE None
             c == IF b.ok THEN rm_enc_prefix(b.rest, e.item) ELSE None
         IN IF c.ok THEN strip_prefix(c.rest, <<"]">>) ELSE None
    ELSE IF e.k = "Union"
    THEN LET a == strip_prefix(str, <<"(">>)
             b == IF a.ok THEN strip_prefix(a.rest, e.name) ELSE None
             c == IF b.ok THEN strip_prefix(b.rest, <<"=">>) ELSE None
             d == IF c.ok THEN rm_fields(c.rest, e.fields) ELSE None
         IN IF d.ok THEN strip_prefix(d.rest, <<")">>) ELSE None
    ELSE strip_prefix(str, code(e.k))

\* rm_enc_prefix: remove the encoding e from the front of str; each `?` of the
\* source returns None as soon as a step fails
rm_enc_prefix(str, e) ==
    IF e.k = "BitField"
    THEN LET a == strip_prefix(str, <<"b">>)
         IN IF a.ok THEN rm_int_prefix(a.rest, e.b) ELSE None
    ELSE IF e.k = "Pointer"
    THEN LET a == strip_prefix(str, <<"^">>)
         IN IF a.ok THEN rm_enc_prefix(a.rest, e.t) ELSE None
    ELSE IF e.k = "Array"
    THEN LET a == strip_prefix(str, <<"[">>)
             b == IF a.ok THEN rm_int_prefix(a.rest, e.len) ELSE None
             c == IF b.ok THEN rm_enc_prefix(b.rest, e.item) ELSE None
         IN IF c.ok THEN strip_prefix(c.rest, <<"]">>) ELSE None
    ELSE IF e.k = "Struct"
    THEN LET a == strip_prefix(str, <<"{">>)
             b == IF a.ok THEN strip_prefix(a.rest, e.name) ELSE None
             c == IF b.ok THEN strip_prefix(b.rest, <<"=">>) ELSE None
             d == IF c.ok THEN rm_fields(c.rest, e.fields) ELSE None
         IN IF d.ok THEN strip_prefix(d.rest, <<"}">>) ELSE None
    ELSE IF e.k = "Union"
    THEN LET a == strip_prefix(str, <<"(">>)
             b == IF a.ok THEN strip_prefix(a.rest, e.name) ELSE None
             c == IF b.ok THEN strip_prefix(b.rest, <<"=">>) ELSE None
             d == IF c.ok THEN rm_fields(c.rest, e.fields) ELSE None
         IN IF d.ok THEN strip_prefix(d.rest, <<")">>) ELSE None
    ELSE strip_prefix(str, code(e.k))

\* `for field in fields { s = rm_enc_prefix(s, field)?; }`
rm_fields(str, fields) ==
    IF fields = <<>> THEN Some(str)
    ELSE LET r == rm_enc_prefix(str, Head(fields))
         IN IF r.ok THEN rm_fields(r.rest, Tail(fields)) ELSE None

\* a plausible slip: is_some in the place of is_empty, leftovers are accepted
eq_enc_prefix_only(str, e) ==
    rm_enc_prefix(trim_start_matches(str, QUALIFIERS), e).ok

\* a plausible slip: only one leading qualifier is stripped
eq_enc_one_qualifier(str, e) ==
    LET t == IF str # <<>> /\ Head(str) \in QUALIFIERS THEN Tail(str) ELSE str
        r == rm_enc_prefix(t, e)
    IN r.ok /\ r.rest = <<>>

eq_enc(str, e) ==
    LET t == trim_start_matches(str, QUALIFIERS)
        r == rm_enc_prefix(t, e)
    IN r.ok /\ r.rest = <<>>

(***************************************************************************)
(* The canonical string of an encoding (the Display of Encoding): the      *)
(* grammar of the encoding strings.                                        *)
(***************************************************************************)
RECURSIVE to_decimal(_)
to_decimal(n) ==
    IF n < 10 THEN <<DigitChars[n + 1]>>
    ELSE to_decimal(n \div 10) \o <<DigitChars[(n % 10) + 1]>>

RECURSIVE canonical_string(_)
RECURSIVE canonical_fields(_)
canonical_string(e) ==
    IF e.k = "BitField" THEN <<"b">> \o to_decimal(e.b)
    ELSE IF e.k = "Pointer" THEN <<"^">> \o canonical_string(e.t)
    ELSE IF e.k = "Array"
    THEN <<"[">> \o to_decimal(e.len) \o canonical_string(e.item) \o <<"]">>
    ELSE IF e.k = "Struct"
    THEN <<"{">> \o e.name \o <<"=">> \o canonical_fields(e.fields) \o <<"}">>
    ELSE IF e.k = "Union"
    THEN <<"(">> \o e.name \o <<"=">> \o canonical_fields(e.fields) \o <<")">>
    ELSE code(e.k)

canonical_fields(fields) ==
    IF fields = <<>> THEN <<>>
    ELSE canonical_string(Head(fields)) \o canonical_fields(Tail(fields))

(***************************************************************************)
(* The encodings and the strings the matcher is called with.               *)
(***************************************************************************)
SeqsUpTo(S, n) == UNION {[1..k -> S] : k \in 0..n}

NameA == <<"A">>
NameB == <<"B">>
Widths == {0, 3, 32}
Lengths == {0, 3}

Scalars == {Leaf("Char"), Leaf("Int"), Leaf("Object"), Leaf("Block"),
            Leaf("Unknown"), Leaf("Void")}
Bits == {BitField(w) : w \in Widths}

FieldLists ==
    SeqsUpTo({Leaf("Char"), Leaf("Int")}, MaxFields)
    \cup {<<Leaf("Block")>>, <<Leaf("Object"), Leaf("Unknown")>>,
          <<Pointer(Leaf("Block"))>>, <<Pointer(Leaf("Object")), Leaf("Unknown")>>,
          <<BitField(3), BitField(0)>>}

Level1 ==
    {Pointer(x) : x \in Scalars \cup Bits}
    \cup {Array(n, x) : n \in Lengths, x \in {Leaf("Char"), BitField(0)}}
    \cup {Struct(NameA, f) : f \in FieldLists}
    \cup {Union(NameA, f) : f \in FieldLists}

Level2 ==
    {Struct(NameA, <<Struct(NameB, <<Leaf("Char"), Leaf("Int")>>), Leaf("Char"), Leaf("Int")>>),
     Union(NameB, <<Struct(NameA, <<Leaf("Int")>>), Array(3, Leaf("Int"))>>),
     Pointer(Struct(NameA, <<Leaf("Block")>>)),
     Pointer(Pointer(BitField(0))),
     Array(32, Array(3, BitField(32))),
     Array(3, Pointer(Leaf("Object")))}

Encodings == Scalars \cup Bits \cup Level1 \cup Level2

RemoveAt(str, i) == SubSeq(str, 1, i - 1) \o SubSeq(str, i + 1, Len(str))

\* str with the characters ins put after its first i characters
InsertAt(str, i, ins) == SubSeq(str, 1, i) \o ins \o SubSeq(str, i + 1, Len(str))

Zeros(k) == [i \in 1..k |-> "0"]

QualStrings == SeqsUpTo(QUALIFIERS, MaxQual)
SuffixChars == {"0", "3", "i", "}"}
Suffixes == SeqsUpTo(SuffixChars, MaxSuffix) \ {<<>>}
IntChars == {"0", "2", "3", "8", "-"}
IntStrings == SeqsUpTo(IntChars, MaxDigits)

WithQualifiers(e) == {q \o canonical_string(e) : q \in QualStrings}

WithSuffix(e) == {canonical_string(e) \o x : x \in Suffixes}

WithRemoval(e) ==
    LET c == canonical_string(e) IN {RemoveAt(c, i) : i \in 1..Len(c)}

WithInsertion(e) ==
    LET c == canonical_string(e)
    IN {InsertAt(c, i, <<q>>) : i \in 1..Len(c), q \in QUALIFIERS}

\* the canonical string with leading zeros in front of one length or width
WithZeros(e) ==
    LET c == canonical_string(e)
        starts == {i \in 1..Len(c) : is_digit(c[i]) /\ (i = 1 \/ ~is_digit(c[i - 1]))}
    IN {InsertAt(c, i - 1, Zeros(k)) : i \in starts, k \in 1..MaxZeros}

\* the canonical string with any short string in the place of the first length or width
RECURSIVE WithInt(_)
WithInt(e) ==
    IF e.k = "BitField" THEN {<<"b">> \o d : d \in IntStrings}
    ELSE IF e.k = "Array"
    THEN {<<"[">> \o d \o canonical_string(e.item) \o <<"]">> : d \in IntStrings}
    ELSE IF e.k = "Pointer" THEN {<<"^">> \o v : v \in WithInt(e.t)}
    ELSE {}

Inputs(e) ==
    WithQualifiers(e) \cup WithSuffix(e) \cup WithRemoval(e)
    \cup WithInsertion(e) \cup WithZeros(e) \cup WithInt(e)

SepInputs(e) ==
    {q \o canonical_string(e) : q \in SeqsUpTo(QUALIFIERS, 1)}
    \cup WithZeros(e) \cup WithSuffix(e)

(***************************************************************************)
(* The matcher's callers.                                                  *)
(***************************************************************************)
NoBlocks ==
    /\ stack = <<>>
    /\ heap = <<>>
    /\ stackDrops = <<>>
    /\ disposeDrops = <<>>

\* any encoding, and a string derived from its canonical string
InitEnc ==
    /\ enc \in Encodings
    /\ s \in Inputs(enc)
    /\ result = FALSE
    /\ pc = "call"
    /\ matched = {}
    /\ NoBlocks

InitSep ==
    /\ enc \in Encodings
    /\ s \in SepInputs(enc)
    /\ result = FALSE
    /\ pc = "call"
    /\ matched = {}
    /\ NoBlocks

\* the call eq_enc(s, enc)
EqEnc ==
    /\ pc = "call"
    /\ result' = eq_enc(s, enc)
    /\ matched' = IF eq_enc(s, enc) THEN matched \cup {enc} ELSE matched
    /\ pc' = "done"
    /\ UNCHANGED <<s, enc>>
    /\ UNCHANGED blockVars

\* the caller compares the same string with another encoding
Retarget ==
    /\ pc = "done"
    /\ \E e \in Encodings \ {enc} : enc' = e
    /\ pc' = "call"
    /\ UNCHANGED <<s, result, matched>>
    /\ UNCHANGED blockVars

NextEnc == EqEnc

NextSep == EqEnc \/ Retarget

SpecEnc == InitEnc /\ [][NextEnc]_vars

SpecSep == InitSep /\ [][NextSep]_vars

(***************************************************************************)
(* What the matcher's claims are stated with.  These are written without   *)
(* the matcher's own operators.                                            *)
(***************************************************************************)
\* str with its leading run of qualifier characters removed
Unqualified(str) ==
    LET k == Cardinality({i \in 1..Len(str) : \A j \in 1..i : str[j] \in QUALIFIERS})
    IN SubSeq(str, k + 1, Len(str))

\* the longest prefix of str made of decimal digits
DigitRun(str) ==
    LET k == Cardinality({i \in 1..Len(str) :
                 \A j \in 1..i : str[j] \in {"0", "1", "2", "3", "4", "5", "6", "7", "8", "9"}})
    IN SubSeq(str, 1, k)

\* the number a run of digits denotes, however large
RECURSIVE Value(_)
Value(run) ==
    IF run = <<>> THEN 0
    ELSE 10 * Value(SubSeq(run, 1, Len(run) - 1)) + to_digit(run[Len(run)])

StructuralChars == {"{", "}", "(", ")", "[", "]", "="}

\* C1: a string that continues the canonical string of the encoding with any
\* non-empty suffix does not match it.
C1_TrailingRejected ==
    (/\ pc = "done"
     /\ Len(s) > Len(canonical_string(enc))
     /\ SubSeq(s, 1, Len(canonical_string(enc))) = canonical_string(enc))
    => result = FALSE

\* C2: qualifier characters, in any number and order, in front of the canonical
\* string of the encoding give a string that matches it.
C2_QualifiersIgnored ==
    (/\ pc = "done"
     /\ \E j \in 0..Len(s) :
            /\ \A i \in 1..j : s[i] \in QUALIFIERS
            /\ SubSeq(s, j + 1, Len(s)) = canonical_string(enc))
    => result = TRUE

C2_Witness ==
    /\ pc = "done"
    /\ result = TRUE
    /\ enc.k = "Struct"
    /\ Len(s) = Len(canonical_string(enc)) + 2
    /\ s[1] \in QUALIFIERS
    /\ s[2] \in QUALIFIERS
    /\ s[1] # s[2]

\* C3: a string matches only when, without its leading qualifiers, it is the
\* canonical string of the encoding, character for character.
C3_ExactMatch ==
    (pc = "done" /\ result = TRUE) => Unqualified(s) = canonical_string(enc)

\* C6: the canonical string of the encoding with one structural character
\* removed does not match it.
C6_MissingStructural ==
    (/\ pc = "done"
     /\ \E i \in 1..Len(canonical_string(enc)) :
            /\ canonical_string(enc)[i] \in StructuralChars
            /\ s = RemoveAt(canonical_string(enc), i))
    => result = FALSE

\* the unterminated nested struct of test_nested
C6_Witness ==
    /\ pc = "done"
    /\ result = FALSE
    /\ enc = Struct(NameA, <<Struct(NameB, <<Leaf("Char"), Leaf("Int")>>),
                             Leaf("Char"), Leaf("Int")>>)
    /\ s = <<"{", "A", "=", "{", "B", "=", "c", "i", "}", "c", "i">>

\* C7: for BitField(n) and Array(n, E) a string matches only if the longest
\* run of digits after the 'b' or '[' is non-empty, denotes a number that fits
\* the unsigned machine integer, and that number is n.
C7_IntMatch ==
    (/\ pc = "done"
     /\ result = TRUE
     /\ enc.k \in {"BitField", "Array"})
    => LET t == Unqualified(s)
           run == DigitRun(Tail(t))
           n == IF enc.k = "BitField" THEN enc.b ELSE enc.len
       IN /\ t # <<>>
          /\ run # <<>>
          /\ Value(run) <= USIZE_MAX
          /\ Value(run) = n

\* a length and a width were offered and accepted
C7_Witness ==
    /\ pc = "done"
    /\ result = TRUE
    /\ enc = Array(32, Array(3, BitField(32)))

\* a width that would be the expected one after wrap-around was offered and refused
C7_OverflowRefused ==
    /\ pc = "done"
    /\ result = FALSE
    /\ enc = BitField(32)
    /\ s = <<"b", "2", "8", "8">>

\* C8: one qualifier character put anywhere after the first character of the
\* canonical string of the encoding gives a string that does not match it.
C8_InnerQualifier ==
    (/\ pc = "done"
     /\ \E i \in 1..Len(canonical_string(enc)) : \E q \in QUALIFIERS :
            s = InsertAt(canonical_string(enc), i, <<q>>))
    => result = FALSE

\* a qualifier directly after the '^' of a pointer
C8_Witness ==
    /\ pc = "done"
    /\ result = FALSE
    /\ enc = Pointer(Leaf("Object"))
    /\ s = <<"^", "r", "@">>

\* C10 as stated: no string is matched with two different encodings.
C10_Separates == Cardinality(matched) <= 1

\* C10: the encodings one string is matched with all have the same canonical
\* string.
C10_SameCanonical ==
    \A e1 \in matched : \A e2 \in matched :
        canonical_string(e1) = canonical_string(e2)

\* one string matched with Struct(A, [Block]) and Struct(A, [Object, Unknown])
C10_Witness ==
    /\ Struct(NameA, <<Leaf("Block")>>) \in matched
    /\ Struct(NameA, <<Leaf("Object"), Leaf("Unknown")>>) \in matched

(***************************************************************************)
(* concrete_block.rs                                                       *)
(*                                                                         *)
(* A closure type F is a record: its name, whether mem::needs_drop holds   *)
(* of it, whether it is Clone, its arity and its size in bytes.  A closure *)
(* value is a number; the bytes of one closure value may lie in several    *)
(* blocks after the runtime's memmove.  A function pointer is a record     *)
(* [present, fn, of]: present = FALSE is None.                             *)
(***************************************************************************)
\* the most ConcreteBlock values constructed
MaxBlocks == 2
\* the most heap blocks the runtime allocates
MaxHeap == 2
\* the highest reference count of a heap block
MaxRefs == 2

ClosureTypes ==
    {[name |-> "captures_ints", needs_drop |-> FALSE, clone |-> TRUE, arity |-> 12, size |-> 8],
     [name |-> "captures_string", needs_drop |-> TRUE, clone |-> TRUE, arity |-> 0, size |-> 24]}

NoFn == [present |-> FALSE, fn |-> "", of |-> ""]
FnPtr(fn, F) == [present |-> TRUE, fn |-> fn, of |-> F.name]

\* the bytes of BlockHeader: isa, flags, reserved, invoke, descriptor
BLOCK_HEADER_SIZE == 32

\* mem::size_of::<ConcreteBlock<A, R, F>>(): repr(C), the header then the closure
size_of_block(F) == BLOCK_HEADER_SIZE + F.size

\* mem::needs_drop::<ConcreteBlock<A, R, F>>(): the closure is the only field to drop
needs_drop_block(F) == F.needs_drop

\* a plausible slip: the flag is never set
FLAGS_empty(F) == {}

\* ConcreteBlock::FLAGS
FLAGS(F) ==
    IF needs_drop_block(F) THEN {"BLOCK_HAS_COPY_DISPOSE"} ELSE {}

\* ConcreteBlock::DESCRIPTOR
DESCRIPTOR(F) ==
    [reserved |-> 0,
     size |-> size_of_block(F),
     copy |-> IF needs_drop_block(F) THEN FnPtr("block_context_copy", F) ELSE NoFn,
     dispose |-> IF needs_drop_block(F) THEN FnPtr("block_context_dispose", F) ELSE NoFn]

\* the trampoline `invoke` that __into_concrete_block generates for F and its arity
into_concrete_block_invoke(F) == [present |-> TRUE, fn |-> "invoke", of |-> F.name]

\* ConcreteBlock::with_invoke(invoke, closure): the closure value c of type F
with_invoke(invoke, F, c) ==
    [header |-> [isa |-> "_NSConcreteStackBlock",
                 flags |-> FLAGS(F),
                 reserved |-> 0,
                 invoke |-> invoke,
                 descriptor |-> DESCRIPTOR(F)],
     type |-> F,
     closure |-> c]

\* a plausible slip: the value is not wrapped, and drops when copy returns
ManuallyDrop_missing(lifetime) == "live"

\* ManuallyDrop::new(self): the value's destructor will not run
ManuallyDrop_new(lifetime) == "forgotten"

\* the number of times the destructor of closure value c runs when a value
\* of type F holding it is dropped
drop_glue(F) == IF needs_drop_block(F) THEN 1 ELSE 0

\* block_context_dispose::<B>(block): ptr::drop_in_place of the whole block
block_context_dispose(drops, blk) ==
    [drops EXCEPT ![blk.closure] = @ + drop_glue(blk.type)]

\* block_context_copy::<B>(dst, src): nothing to do, dst is returned as it is
block_context_copy(dst, src) == dst

(***************************************************************************)
(* The runtime: _Block_copy and _Block_release, as the interface states    *)
(* them.                                                                   *)
(***************************************************************************)
\* _Block_copy of a stack block: allocate, memmove, then the copy helper
\* when the block has copy/dispose helpers
Block_copy(blk, origin) ==
    LET moved == [header |-> [blk.header EXCEPT
                                 !.isa = "_NSConcreteMallocBlock",
                                 !.flags = @ \cup {"BLOCK_NEEDS_FREE"}],
                  type |-> blk.type,
                  closure |-> blk.closure,
                  refs |-> 1,
                  freed |-> FALSE,
                  origin |-> origin]
    IN IF "BLOCK_HAS_COPY_DISPOSE" \in blk.header.flags /\ blk.header.descriptor.copy.present
       THEN block_context_copy(moved, blk)
       ELSE moved

(***************************************************************************)
(* The operations on blocks.                                               *)
(***************************************************************************)
InitBlock ==
    /\ s = <<>>
    /\ enc = Leaf("Void")
    /\ result = FALSE
    /\ pc = "idle"
    /\ matched = {}
    /\ NoBlocks

\* ConcreteBlock::new(closure), with a fresh closure value of type F
New ==
    /\ Len(stack) < MaxBlocks
    /\ \E F \in ClosureTypes :
        LET c == Len(stackDrops) + 1
            blk == with_invoke(into_concrete_block_invoke(F), F, c)
        IN stack' = Append(stack, [header |-> blk.header, type |-> blk.type,
                                   closure |-> blk.closure,
                                   lifetime |-> "live", cloneOf |-> 0])
    /\ stackDrops' = Append(stackDrops, 0)
    /\ disposeDrops' = Append(disposeDrops, 0)
    /\ UNCHANGED heap
    /\ UNCHANGED encVars

\* self.header.invoke.unwrap()
clone_invoke(blk) == blk.header.invoke

\* <ConcreteBlock as Clone>::clone(&self), for F: Clone
Clone ==
    /\ Len(stack) < MaxBlocks
    /\ \E b \in 1..Len(stack) :
        /\ stack[b].lifetime = "live"
        /\ stack[b].type.clone
        /\ stack[b].header.invoke.present
        /\ LET c == Len(stackDrops) + 1
               blk == with_invoke(clone_invoke(stack[b]), stack[b].type, c)
           IN stack' = Append(stack, [header |-> blk.header, type |-> blk.type,
                                      closure |-> blk.closure,
                                      lifetime |-> "live", cloneOf |-> b])
    /\ stackDrops' = Append(stackDrops, 0)
    /\ disposeDrops' = Append(disposeDrops, 0)
    /\ UNCHANGED heap
    /\ UNCHANGED encVars

\* ConcreteBlock::copy(self): the value is moved into ManuallyDrop and
\* RcBlock::copy hands its address to _Block_copy
Copy ==
    /\ Len(heap) < MaxHeap
    /\ \E b \in 1..Len(stack) :
        /\ stack[b].lifetime = "live"
        /\ stack' = [stack EXCEPT ![b].lifetime = ManuallyDrop_new(@)]
        /\ heap' = Append(heap, Block_copy(stack[b], "copy"))
    /\ UNCHANGED <<stackDrops, disposeDrops>>
    /\ UNCHANGED encVars

\* a ConcreteBlock goes out of scope: its fields are dropped
DropStack ==
    /\ \E b \in 1..Len(stack) :
        /\ stack[b].lifetime = "live"
        /\ stack' = [stack EXCEPT ![b].lifetime = "dropped"]
        /\ stackDrops' = [stackDrops EXCEPT ![stack[b].closure] = @ + drop_glue(stack[b].type)]
    /\ UNCHANGED <<heap, disposeDrops>>
    /\ UNCHANGED encVars

\* <ConcreteBlock as Deref>::deref(&self): the &Block view is handed to the
\* runtime, which copies the block to the heap while the stack value lives on
DerefCopy ==
    /\ Len(heap) < MaxHeap
    /\ \E b \in 1..Len(stack) :
        /\ stack[b].lifetime = "live"
        /\ heap' = Append(heap, Block_copy(stack[b], "deref"))
    /\ UNCHANGED <<stack, stackDrops, disposeDrops>>
    /\ UNCHANGED encVars

\* _Block_copy of a heap block (RcBlock::clone): one more reference
Retain ==
    /\ \E h \in 1..Len(heap) :
        /\ ~heap[h].freed
        /\ heap[h].refs < MaxRefs
        /\ heap' = [heap EXCEPT ![h].refs = @ + 1]
    /\ UNCHANGED <<stack, stackDrops, disposeDrops>>
    /\ UNCHANGED encVars

\* _Block_release of a heap block (RcBlock's drop): one reference less; at
\* zero the dispose helper runs when the block has one, and the block is freed
Release ==
    /\ \E h \in 1..Len(heap) :
        /\ ~heap[h].freed
        /\ heap[h].refs > 0
        /\ IF heap[h].refs > 1
           THEN /\ heap' = [heap EXCEPT ![h].refs = @ - 1]
                /\ UNCHANGED disposeDrops
           ELSE /\ heap' = [heap EXCEPT ![h].refs = 0, ![h].freed = TRUE]
                /\ disposeDrops' =
                       IF /\ "BLOCK_HAS_COPY_DISPOSE" \in heap[h].header.flags
                          /\ heap[h].header.descriptor.dispose.present
                       THEN block_context_dispose(disposeDrops, heap[h])
                       ELSE disposeDrops
    /\ UNCHANGED <<stack, stackDrops>>
    /\ UNCHANGED encVars

NextBlock == New \/ Clone \/ Copy \/ DropStack \/ DerefCopy \/ Retain \/ Release

SpecBlock == InitBlock /\ [][NextBlock]_vars

\* the heap blocks that hold the bytes of closure value c
HeapCopiesOf(c) == {h \in 1..Len(heap) : heap[h].closure = c}

\* C4: when copy() has promoted a block whose closure has a non-trivial
\* destructor, and the runtime has released the heap block to zero, the
\* destructor has run exactly once: not on the stack original, once through
\* the dispose helper.  (The heap block of copy() is the only heap copy of
\* the closure value.)
C4_PromotedDroppedOnce ==
    \A h \in 1..Len(heap) :
        (/\ heap[h].origin = "copy"
         /\ heap[h].freed
         /\ heap[h].type.needs_drop
         /\ HeapCopiesOf(heap[h].closure) = {h})
        => /\ stackDrops[heap[h].closure] = 0
           /\ disposeDrops[heap[h].closure] = 1

\* a block promoted by copy(), its stack original abandoned, released to zero
C4_Witness ==
    \E h \in 1..Len(heap) :
        /\ heap[h].origin = "copy"
        /\ heap[h].freed
        /\ heap[h].type.needs_drop
        /\ HeapCopiesOf(heap[h].closure) = {h}
        /\ disposeDrops[heap[h].closure] = 1
        /\ \E b \in 1..Len(stack) :
              stack[b].closure = heap[h].closure /\ stack[b].lifetime = "forgotten"

\* C5: the header of every ConcreteBlock: the stack-block class, reserved 0,
\* an invoke pointer, the size of the whole object, and the copy/dispose flag
\* and both helpers exactly when the closure type needs drop; a clone has the
\* invoke pointer of its original.
C5_HeaderWellFormed ==
    \A b \in 1..Len(stack) :
        LET hd == stack[b].header
            F == stack[b].type
        IN /\ hd.isa = "_NSConcreteStackBlock"
           /\ hd.reserved = 0
           /\ hd.invoke.present
           /\ hd.descriptor.reserved = 0
           /\ hd.descriptor.size = BLOCK_HEADER_SIZE + F.size
           /\ ("BLOCK_HAS_COPY_DISPOSE" \in hd.flags) <=> F.needs_drop
           /\ hd.descriptor.copy.present <=> F.needs_drop
           /\ hd.descriptor.dispose.present <=> F.needs_drop
           /\ stack[b].cloneOf # 0 => hd.invoke = stack[stack[b].cloneOf].header.invoke

\* a clone of a block whose closure needs drop, beside a block whose closure does not
C5_Witness ==
    /\ \E b \in 1..Len(stack) : stack[b].cloneOf # 0 /\ stack[b].type.needs_drop
    /\ \E b \in 1..Len(stack) : stack[b].cloneOf = 0

\* C9: the destructor of one closure value never runs twice.
C9_NoDoubleDrop ==
    \A c \in 1..Len(stackDrops) : stackDrops[c] + disposeDrops[c] <= 1

====
